---- MODULE Spec2Model ----
(***************************************************************************)
(* A model of support/pack.py, the source packing script: the extraction   *)
(* of include dependencies, the breadth-first construction of the include  *)
(* graph, the depth-first computation of the required include order and    *)
(* the writing of the compacted source file.                               *)
(*                                                                         *)
(* Text is a sequence of symbols.  A symbol is one character, except that   *)
(* the literals the script's regular expressions and format strings spell  *)
(* out ("#include", "#pragma once", "/**", "*/", "#ifndef ", ...) are one   *)
(* symbol each.  "\n" is the line terminator.  Paths are texts too.         *)
(***************************************************************************)
EXTENDS Integers, Sequences, FiniteSets, Bags, TLC

(***************************************************************************)
(* Bounds of the model.                                                    *)
(***************************************************************************)
MaxEdges == 4
MaxLines == 3
MaxXLines == 3
MaxCallEdges == 3
MaxVisited == 2
MaxCopyLines == 3

(***************************************************************************)
(* Generic sequence helpers.                                               *)
(***************************************************************************)
Range(s) == {s[i] : i \in 1..Len(s)}

SeqsUpTo(S, n) == UNION {[1..k -> S] : k \in 0..n}

IsPrefix(s, t) == Len(s) <= Len(t) /\ SubSeq(t, 1, Len(s)) = s

NoDuplicates(s) == \A i, j \in 1..Len(s) : s[i] = s[j] => i = j

IndexOf(s, x) == CHOOSE i \in 1..Len(s) : s[i] = x /\ \A j \in 1..(i - 1) : s[j] # x

\* Python's `needle in haystack` for strings: needle is a contiguous part.
Contains(haystack, needle) ==
    \E i \in 0..(Len(haystack) - Len(needle)) :
        SubSeq(haystack, i + 1, i + Len(needle)) = needle

\* str.split(sep): the pieces between the separators, empty pieces kept.
Split(s, sep) ==
    LET at == {i \in 1..Len(s) : s[i] = sep}
        \* the position of the k-th separator; 0 and Len(s) + 1 bound the text
        pos(k) == IF k = 0 THEN 0
                  ELSE IF k > Cardinality(at) THEN Len(s) + 1
                  ELSE CHOOSE i \in at : Cardinality({j \in at : j <= i}) = k
    IN  [k \in 1..(Cardinality(at) + 1) |-> SubSeq(s, pos(k - 1) + 1, pos(k) - 1)]

\* sep.join(pieces)
RECURSIVE Join(_, _)
Join(pieces, sep) ==
    IF pieces = <<>> THEN <<>>
    ELSE IF Len(pieces) = 1 THEN pieces[1]
    ELSE pieces[1] \o <<sep>> \o Join(Tail(pieces), sep)

RECURSIVE Flatten(_)
Flatten(ss) == IF ss = <<>> THEN <<>> ELSE ss[1] \o Flatten(Tail(ss))

\* The characters of the model's texts at which str.splitlines() ends a
\* line: the newline and the form feed.
LineBoundaries == {"\n", "\f"}

\* str.splitlines(): the lines of a text; a final terminator opens no line.
splitlines(text) ==
    LET pieces == Split([i \in 1..Len(text) |->
                            IF text[i] \in LineBoundaries THEN "\n" ELSE text[i]], "\n")
    IN  IF pieces[Len(pieces)] = <<>> THEN SubSeq(pieces, 1, Len(pieces) - 1) ELSE pieces

(***************************************************************************)
(* os.path                                                                 *)
(***************************************************************************)
Cwd == <<"/">>

isabs(p) == p # <<>> /\ p[1] = "/"

AllSlashes(p) == \A i \in 1..Len(p) : p[i] = "/"

RECURSIVE rstrip(_)
rstrip(p) == IF p # <<>> /\ p[Len(p)] = "/" THEN rstrip(SubSeq(p, 1, Len(p) - 1)) ELSE p

\* os.path.dirname
dirname(p) ==
    LET slashes == {i \in 1..Len(p) : p[i] = "/"}
        i == IF slashes = {} THEN 0 ELSE CHOOSE k \in slashes : \A j \in slashes : j <= k
        head == SubSeq(p, 1, i)
    IN  IF head # <<>> /\ ~AllSlashes(head) THEN rstrip(head) ELSE head

\* os.path.join of two parts
join(a, b) ==
    IF isabs(b) THEN b
    ELSE IF a = <<>> \/ a[Len(a)] = "/" THEN a \o b
    ELSE a \o <<"/">> \o b

\* The component loop of os.path.normpath.
RECURSIVE normcomps(_, _, _)
normcomps(comps, new_comps, initial_slashes) ==
    IF comps = <<>> THEN new_comps
    ELSE LET comp == comps[1]
             rest == Tail(comps)
         IN  IF comp = <<>> \/ comp = <<".">>
             THEN normcomps(rest, new_comps, initial_slashes)
             ELSE IF comp # <<".", ".">>
                     \/ (initial_slashes = 0 /\ new_comps = <<>>)
                     \/ (new_comps # <<>> /\ new_comps[Len(new_comps)] = <<".", ".">>)
             THEN normcomps(rest, Append(new_comps, comp), initial_slashes)
             ELSE IF new_comps # <<>>
             THEN normcomps(rest, SubSeq(new_comps, 1, Len(new_comps) - 1), initial_slashes)
             ELSE normcomps(rest, new_comps, initial_slashes)

\* os.path.normpath
normpath(p) ==
    LET initial_slashes ==
            IF ~isabs(p) THEN 0
            ELSE IF Len(p) >= 2 /\ p[2] = "/" /\ ~(Len(p) >= 3 /\ p[3] = "/") THEN 2
            ELSE 1
        joined == Join(normcomps(Split(p, "/"), <<>>, initial_slashes), "/")
        path == [i \in 1..initial_slashes |-> "/"] \o joined
    IN  IF p = <<>> \/ path = <<>> THEN <<".">> ELSE path

\* os.path.abspath
abspath(p) == normpath(IF isabs(p) THEN p ELSE join(Cwd, p))

(***************************************************************************)
(* The project of the run (the ProjectInfo that __main__ reads from the     *)
(* configuration file) and the files of the model's file systems.          *)
(***************************************************************************)
WorkingDir == <<"/", "w">>
Namespace == <<"n", "s">>
EntryPoint == <<"n", "s", "/", "e">>

ProjectInfo(workingdir, namespace, entrypoint) ==
    [workingdir |-> workingdir, namespace |-> namespace, entrypoint |-> entrypoint]

IncludeGraph(language, project) == [language |-> language, project |-> project]

\* A Python dict: the (key, value) pairs in insertion order.
DictHas(d, k) == \E i \in 1..Len(d) : d[i].key = k

DictGet(d, k) == d[CHOOSE i \in 1..Len(d) : d[i].key = k].value

DictKeys(d) == {d[i].key : i \in 1..Len(d)}

\* The assignment that moves a key it finds to the end.
DictSet_last(d, k, v) ==
    Append(SelectSeq(d, LAMBDA pair : pair.key # k), [key |-> k, value |-> v])

DictSet(d, k, v) ==
    IF DictHas(d, k)
    THEN [i \in 1..Len(d) |-> IF d[i].key = k THEN [key |-> k, value |-> v] ELSE d[i]]
    ELSE Append(d, [key |-> k, value |-> v])

\* open(filename, 'r') succeeds exactly on the files of the file system.
CanOpen(filename, files) == filename \in DOMAIN files

(***************************************************************************)
(* The regular expressions.                                                *)
(***************************************************************************)
NoMatch == [matched |-> FALSE, group1 |-> <<>>, group2 |-> ""]

\* cpp_preprocessor_include_regex on one line (re.MULTILINE: ^ and $ are the
\* line's ends and . matches no terminator):  ^#include *[<"](.*)([>"])$
cpp_preprocessor_include_regex(line) ==
    IF line = <<>> \/ line[1] # "#include" THEN NoMatch
    ELSE LET nonspace == {i \in 2..Len(line) : line[i] # " "}
         IN  IF nonspace = {} THEN NoMatch
             ELSE LET open == CHOOSE i \in nonspace : \A j \in nonspace : i <= j
                      last == Len(line)
                  IN  IF line[open] \in {"<", "\""} /\ last > open /\ line[last] \in {">", "\""}
                      THEN [matched |-> TRUE,
                            group1 |-> SubSeq(line, open + 1, last - 1),
                            group2 |-> line[last]]
                      ELSE NoMatch

\* cpp_preprocessor_pragma_once_regex on one line:  ^#pragma once$
cpp_preprocessor_pragma_once_regex(line) == line = <<"#pragma once">>

\* The expression with an optional closing delimiter:  ^/\*\*.*?(\*/|\Z)
cpp_header_comment_regex_unclosed(text) ==
    IF text = <<>> \/ text[1] # "/**" THEN 0
    ELSE LET closes == {i \in 2..Len(text) : text[i] = "*/"}
         IN  IF closes = {} THEN Len(text) ELSE CHOOSE i \in closes : \A j \in closes : i <= j

\* cpp_header_comment_regex (re.DOTALL, ^ is the start of the text): the
\* length of the match of ^/\*\*.*?\*/ at the start of the text, 0 if none.
cpp_header_comment_regex(text) ==
    IF text = <<>> \/ text[1] # "/**" THEN 0
    ELSE LET closes == {i \in 2..Len(text) : text[i] = "*/"}
         IN  IF closes = {} THEN 0 ELSE CHOOSE i \in closes : \A j \in closes : i <= j

\* re.finditer(cpp_preprocessor_include_regex, source_code): the matches in
\* the order of the text.
finditer(lines) ==
    SelectSeq([i \in 1..Len(lines) |-> cpp_preprocessor_include_regex(lines[i])],
              LAMBDA m : m.matched)

(***************************************************************************)
(* extract_include_dependencies                                            *)
(***************************************************************************)
\* The turn that takes every name from the working directory.
classify_include_workingdir(match, filename, project, acc) ==
    IF match.group2 = "\"" \/ Contains(match.group1, project.namespace)
    THEN LET source_file_path == join(project.workingdir, match.group1)
         IN  [project_include_files |-> Append(acc.project_include_files, abspath(source_file_path)),
              language_include_files |-> acc.language_include_files]
    ELSE [project_include_files |-> acc.project_include_files,
          language_include_files |-> Append(acc.language_include_files, match.group1)]

\* One turn of the loop over the matches; acc is the pair of lists so far.
classify_include(match, filename, project, acc) ==
    IF match.group2 = "\""
    THEN LET current_directory == dirname(filename)
             source_file_path == join(current_directory, match.group1)
         IN  [project_include_files |-> Append(acc.project_include_files, abspath(source_file_path)),
              language_include_files |-> acc.language_include_files]
    ELSE IF Contains(match.group1, project.namespace)
    THEN LET source_file_path == join(project.workingdir, match.group1)
         IN  [project_include_files |-> Append(acc.project_include_files, abspath(source_file_path)),
              language_include_files |-> acc.language_include_files]
    ELSE [project_include_files |-> acc.project_include_files,
          language_include_files |-> Append(acc.language_include_files, match.group1)]

RECURSIVE classify_includes(_, _, _, _)
classify_includes(matches, filename, project, acc) ==
    IF matches = <<>> THEN acc
    ELSE classify_includes(Tail(matches), filename, project,
                           classify_include(matches[1], filename, project, acc))

\* The dependencies of the file with the given text.
extract_from_source(source_code, filename, project) ==
    classify_includes(finditer(Split(source_code, "\n")), filename, project,
                      [project_include_files |-> <<>>, language_include_files |-> <<>>])

extract_include_dependencies(filename, project, files) ==
    extract_from_source(files[filename], filename, project)

(***************************************************************************)
(* find_include_graph                                                      *)
(***************************************************************************)
\* The loop over the extracted headers without its test.
enqueue_headers_all(queue, project_include_files, graph) ==
    queue \o project_include_files

\* The loop over the extracted headers, left after its first append.
enqueue_headers_first(queue, project_include_files, graph) ==
    LET new == SelectSeq(project_include_files, LAMBDA header : ~DictHas(graph, header))
    IN  IF new = <<>> THEN queue ELSE queue \o <<new[1]>>

\* The loop over the extracted headers with a test of the queue as well.
enqueue_headers_unqueued(queue, project_include_files, graph) ==
    queue \o SelectSeq(project_include_files,
                       LAMBDA header : ~DictHas(graph, header) /\ header \notin Range(queue))

\* The loop over the extracted headers: those that are no key of the graph
\* are appended to the queue.
enqueue_headers(queue, project_include_files, graph) ==
    queue \o SelectSeq(project_include_files, LAMBDA header : ~DictHas(graph, header))

\* The turn that takes a file that does not open for a file without includes.
find_include_graph_turn_tolerant(st, project, files) ==
    LET current_file == Head(st.unprocessed_include_files)
        deps == IF CanOpen(current_file, files)
                THEN extract_include_dependencies(current_file, project, files)
                ELSE [project_include_files |-> <<>>, language_include_files |-> <<>>]
    IN  [error |-> "none",
         unprocessed_include_files |->
             enqueue_headers(Tail(st.unprocessed_include_files),
                             deps.project_include_files, st.source_code_include_graph),
         source_code_include_graph |->
             DictSet(st.source_code_include_graph, current_file, deps.project_include_files),
         source_code_language_includes |->
             st.source_code_language_includes \cup Range(deps.language_include_files)]

\* The turn that assigns the file's external names instead of adding them.
find_include_graph_turn_assign(st, project, files) ==
    LET current_file == Head(st.unprocessed_include_files)
        deps == extract_include_dependencies(current_file, project, files)
    IN  IF ~CanOpen(current_file, files)
        THEN [st EXCEPT !.error = "FileAccessError",
                        !.unprocessed_include_files = Tail(@)]
        ELSE [error |-> "none",
              unprocessed_include_files |->
                  enqueue_headers(Tail(st.unprocessed_include_files),
                                  deps.project_include_files, st.source_code_include_graph),
              source_code_include_graph |->
                  DictSet(st.source_code_include_graph, current_file,
                          deps.project_include_files),
              source_code_language_includes |-> Range(deps.language_include_files)]

\* One turn of the while loop, on the locals of find_include_graph: the
\* locals after the turn, or the error of the open that failed.
find_include_graph_turn(st, project, files) ==
    LET current_file == Head(st.unprocessed_include_files)
        deps == extract_include_dependencies(current_file, project, files)
    IN  IF ~CanOpen(current_file, files)
        THEN [st EXCEPT !.error = "FileAccessError",
                        !.unprocessed_include_files = Tail(@)]
        ELSE [error |-> "none",
              unprocessed_include_files |->
                  enqueue_headers(Tail(st.unprocessed_include_files),
                                  deps.project_include_files, st.source_code_include_graph),
              source_code_include_graph |->
                  DictSet(st.source_code_include_graph, current_file,
                          deps.project_include_files),
              source_code_language_includes |->
                  st.source_code_language_includes \cup Range(deps.language_include_files)]

find_include_graph_start(filepath) ==
    [error |-> "none",
     unprocessed_include_files |-> <<filepath>>,
     source_code_include_graph |-> <<>>,
     source_code_language_includes |-> {}]

\* The while loop run to its end: the graph, or the error of the open that
\* failed.
RECURSIVE find_include_graph_loop(_, _, _)
find_include_graph_loop(st, project, files) ==
    IF st.error # "none" \/ st.unprocessed_include_files = <<>>
    THEN [error |-> st.error,
          graph |-> IncludeGraph(st.source_code_language_includes, st.source_code_include_graph)]
    ELSE find_include_graph_loop(find_include_graph_turn(st, project, files), project, files)

find_include_graph(filepath, project, files) ==
    find_include_graph_loop(find_include_graph_start(filepath), project, files)

(***************************************************************************)
(* find_graph_required_order                                               *)
(***************************************************************************)
\* The inner loop without its membership test.
merge_dependencies_all(source_dependencies, transitive_dependencies) ==
    source_dependencies \o transitive_dependencies

\* The inner loop that puts the new dependencies in front.
merge_dependencies_prepend(source_dependencies, transitive_dependencies) ==
    SelectSeq(transitive_dependencies, LAMBDA d : d \notin Range(source_dependencies))
        \o source_dependencies

\* The inner loop, left after its first append.
merge_dependencies_first(source_dependencies, transitive_dependencies) ==
    LET new == SelectSeq(transitive_dependencies,
                         LAMBDA d : d \notin Range(source_dependencies))
    IN  IF new = <<>> THEN source_dependencies ELSE Append(source_dependencies, new[1])

\* The inner loop: the transitive dependencies that source_dependencies
\* does not hold yet are appended to it.
RECURSIVE merge_dependencies(_, _)
merge_dependencies(source_dependencies, transitive_dependencies) ==
    IF transitive_dependencies = <<>> THEN source_dependencies
    ELSE merge_dependencies(
             IF transitive_dependencies[1] \in Range(source_dependencies)
             THEN source_dependencies
             ELSE Append(source_dependencies, transitive_dependencies[1]),
             Tail(transitive_dependencies))

\* The return that puts the file before its dependencies.
order_return_first(source_dependencies, srcfile) == <<srcfile>> \o source_dependencies

\* The return that leaves the file itself out.
order_return_dependencies(source_dependencies, srcfile) == source_dependencies

\* The value the function returns for a file: its dependencies, then itself.
order_return(source_dependencies, srcfile) == source_dependencies \o <<srcfile>>

\* The function's result: the order, or the KeyError of a lookup of a file
\* that graph.project does not hold.
RECURSIVE find_graph_required_order(_, _, _)
RECURSIVE order_loop(_, _, _, _, _)
find_graph_required_order(srcfile, graph, visited) ==
    IF srcfile \in Range(visited) THEN [error |-> "none", order |-> <<>>]
    ELSE IF ~DictHas(graph.project, srcfile) THEN [error |-> "KeyError", order |-> <<>>]
    ELSE order_loop(srcfile, graph, visited \o <<srcfile>>,
                    DictGet(graph.project, srcfile), <<>>)

order_loop(srcfile, graph, visited, dependencies, source_dependencies) ==
    IF dependencies = <<>>
    THEN [error |-> "none", order |-> order_return(source_dependencies, srcfile)]
    ELSE LET dependency == dependencies[1]
             transitive_dependencies ==
                 IF dependency \in Range(source_dependencies)
                 THEN [error |-> "none", order |-> <<>>]
                 ELSE find_graph_required_order(dependency, graph, visited)
         IN  IF transitive_dependencies.error # "none" THEN transitive_dependencies
             ELSE order_loop(srcfile, graph, visited, Tail(dependencies),
                             merge_dependencies(source_dependencies,
                                                transitive_dependencies.order))

(***************************************************************************)
(* copy_code_to_file                                                       *)
(***************************************************************************)
\* re.sub(cpp_header_comment_regex, '', text)
sub_header_comment(text) == SubSeq(text, cpp_header_comment_regex(text) + 1, Len(text))

\* re.sub(cpp_preprocessor_pragma_once_regex, '', text)
sub_pragma_once(text) ==
    LET lines == Split(text, "\n")
    IN  Join([i \in 1..Len(lines) |->
                 IF cpp_preprocessor_pragma_once_regex(lines[i]) THEN <<>> ELSE lines[i]], "\n")

\* The cleaning that leaves the include directives in.
sub_include_none(text) == text

\* re.sub(cpp_preprocessor_include_regex, '', text)
sub_include(text) ==
    LET lines == Split(text, "\n")
    IN  Join([i \in 1..Len(lines) |->
                 IF cpp_preprocessor_include_regex(lines[i]).matched THEN <<>> ELSE lines[i]], "\n")

\* The cleaning that keeps the empty lines.
clean_source_unfiltered(source_contents) ==
    Join(splitlines(sub_include(sub_pragma_once(sub_header_comment(source_contents)))), "\n")

\* The text that copy_code_to_file prints for a source text.
clean_source(source_contents) ==
    LET cleaned == sub_include(sub_pragma_once(sub_header_comment(source_contents)))
    IN  Join(SelectSeq(splitlines(cleaned), LAMBDA line : line # <<>>), "\n")

copy_code_to_file(srcfile, files) == clean_source(files[srcfile])

\* print(text, file = fhandle) on the prints of the output file.
print(prints, text) == Append(prints, text)

(***************************************************************************)
(* The text of write_compacted_source_code.                                *)
(***************************************************************************)
\* str.upper()
upper(text) ==
    [i \in 1..Len(text) |->
        CASE text[i] = "n" -> "N"
          [] text[i] = "s" -> "S"
          [] OTHER -> text[i]]

ifndef_line(namespace) == <<"#ifndef ">> \o namespace \o <<"_HEADER_INCLUDED">>

define_line(namespace) == <<"#define ">> \o namespace \o <<"_HEADER_INCLUDED">>

include_line(header) == <<"#include <">> \o header \o <<">">>

endif_line(namespace) == <<"#endif //">> \o namespace \o <<"_HEADER_INCLUDED">>

(***************************************************************************)
(* The state of a run of compact_source_code.                              *)
(***************************************************************************)
VARIABLES
    files,                          \* the file system: path -> text of each file that opens
    pc,                             \* the statement the run is at
    error,                          \* the exception that ended the run, "none" if none
    unprocessed_include_files,      \* find_include_graph: the work queue
    source_code_include_graph,      \* find_include_graph: the dict file -> dependencies
    source_code_language_includes,  \* find_include_graph: the set of external names
    extracted,                      \* the bag of the files extract_include_dependencies has read
    include_order,                  \* write_compacted_source_code: the computed order
    entrypoint_header,              \* write_compacted_source_code: the header comment
    outfile,                        \* the output file: opened for writing?, and its prints
    pending_language,               \* the members of graph.language still to be iterated
    file_index,                     \* the position of the loop over include_order
    order_entry,                    \* find_graph_required_order: the file of the external call
    stack,                          \* find_graph_required_order: the activations, outermost first
    order_result,                   \* find_graph_required_order: what the external call returned
    order_visited,                  \* find_graph_required_order: the visited list of the external call
    extract_filename,               \* extract_include_dependencies: its filename argument
    dependencies                    \* extract_include_dependencies: the pair of lists it returned

vars == <<files, pc, error, unprocessed_include_files, source_code_include_graph,
          source_code_language_includes, extracted, include_order,
          entrypoint_header, outfile, pending_language, file_index, order_entry, stack,
          order_result, order_visited, extract_filename, dependencies>>

orderVars == <<order_entry, stack, order_result, order_visited>>

extractVars == <<extract_filename, dependencies>>

project == ProjectInfo(WorkingDir, Namespace, EntryPoint)

\* compact_source_code: the absolute path of the entrypoint.
entrypoint_file_path == abspath(join(project.workingdir, project.entrypoint))

\* compact_source_code: the ProjectInfo handed to write_compacted_source_code.
write_project == ProjectInfo(project.workingdir, project.namespace, entrypoint_file_path)

graph == IncludeGraph(source_code_language_includes, source_code_include_graph)

(***************************************************************************)
(* The file systems of the model: three files in the namespace directory,  *)
(* their lines drawn from a pool.                                          *)
(***************************************************************************)
FileE == <<"/", "w", "/", "n", "s", "/", "e">>
FileB == <<"/", "w", "/", "n", "s", "/", "b">>
FileC == <<"/", "w", "/", "n", "s", "/", "c">>
FileX == <<"/", "w", "/", "n", "s", "/", "x">>
Files == {FileE, FileB, FileC}

IncB == <<"#include", " ", "\"", "b", "\"">>
IncC == <<"#include", " ", "<", "n", "s", "/", "c", ">">>
IncE == <<"#include", " ", "\"", "e", "\"">>
IncV == <<"#include", " ", "<", "v", ">">>
IncS == <<"#include", "<", "s", ">">>
IncX == <<"#include", " ", "\"", "x", "\"">>
CodeA == <<"a">>
HeaderBlock == <<"/**", "h", "*/">>

IncludePool == {IncB, IncC, IncE, IncV, IncS}
LinePool == {IncB, IncC, IncE, IncV, IncS, IncX, CodeA}

\* How a file starts: with no comment, with a documentation comment block,
\* or with a documentation comment that is never closed.
HeaderKinds == {"none", "block", "unterminated"}

RenderText(header_kind, lines) ==
    (CASE header_kind = "block" -> HeaderBlock \o <<"\n">>
       [] header_kind = "unterminated" -> <<"/**", "h", "\n">>
       [] OTHER -> <<>>)
    \o Flatten([i \in 1..Len(lines) |-> lines[i] \o <<"\n">>])

ThreeFiles(te, tb, tc) == (FileE :> te) @@ (FileB :> tb) @@ (FileC :> tc)

OldPrints == <<<<"o", "l", "d">>>>

InitRun ==
    /\ pc = "find_include_graph"
    /\ error = "none"
    /\ LET st == find_include_graph_start(entrypoint_file_path)
       IN  /\ unprocessed_include_files = st.unprocessed_include_files
           /\ source_code_include_graph = st.source_code_include_graph
           /\ source_code_language_includes = st.source_code_language_includes
    /\ extracted = EmptyBag
    /\ include_order = <<>>
    /\ entrypoint_header = <<>>
    /\ outfile = [opened |-> FALSE, prints |-> OldPrints]
    /\ pending_language = {}
    /\ file_index = 1
    /\ order_entry = entrypoint_file_path
    /\ stack = <<>>
    /\ order_result = <<>>
    /\ order_visited = <<>>
    /\ extract_filename = <<>>
    /\ dependencies = <<>>

\* Every file system of at most MaxLines lines in all, the entrypoint
\* starting in each of the three ways; and one without the entrypoint.
Init ==
    /\ \/ \E kind \in HeaderKinds, le \in SeqsUpTo(LinePool, MaxLines) :
            \E lb \in SeqsUpTo(LinePool, MaxLines - Len(le)) :
                \E lc \in SeqsUpTo(LinePool, MaxLines - Len(le) - Len(lb)) :
                    files = ThreeFiles(RenderText(kind, le), RenderText("none", lb),
                                       RenderText("block", lc))
       \/ files = (FileB :> RenderText("none", <<CodeA>>))
    /\ InitRun

\* Every file system of at most MaxEdges include directives in all.
InitGraph ==
    /\ \E le \in SeqsUpTo(IncludePool, MaxEdges) :
         \E lb \in SeqsUpTo(IncludePool, MaxEdges - Len(le)) :
             \E lc \in SeqsUpTo(IncludePool, MaxEdges - Len(le) - Len(lb)) :
                 files = ThreeFiles(RenderText("none", le), RenderText("none", lb),
                                    RenderText("none", lc))
    /\ InitRun

(***************************************************************************)
(* find_include_graph, one turn of its loop at a time.                     *)
(***************************************************************************)
Abort(exception) ==
    /\ pc' = "abort"
    /\ error' = exception

GraphTurn ==
    /\ pc = "find_include_graph"
    /\ unprocessed_include_files # <<>>
    /\ LET current_file == Head(unprocessed_include_files)
           st == find_include_graph_turn(
                     [error |-> error,
                      unprocessed_include_files |-> unprocessed_include_files,
                      source_code_include_graph |-> source_code_include_graph,
                      source_code_language_includes |-> source_code_language_includes],
                     project, files)
       IN  /\ unprocessed_include_files' = st.unprocessed_include_files
           /\ source_code_include_graph' = st.source_code_include_graph
           /\ source_code_language_includes' = st.source_code_language_includes
           /\ IF st.error = "none"
              THEN /\ extracted' = extracted (+) SetToBag({current_file})
                   /\ UNCHANGED <<pc, error>>
              ELSE /\ Abort(st.error)
                   /\ UNCHANGED extracted
    /\ UNCHANGED <<files, include_order, entrypoint_header, outfile, pending_language,
                   file_index, orderVars, extractVars>>

GraphReturn ==
    /\ pc = "find_include_graph"
    /\ unprocessed_include_files = <<>>
    /\ pc' = "find_graph_required_order"
    /\ UNCHANGED <<files, error, unprocessed_include_files, source_code_include_graph,
                   source_code_language_includes, extracted, include_order,
                   entrypoint_header, outfile, pending_language, file_index, orderVars,
                   extractVars>>

(***************************************************************************)
(* write_compacted_source_code                                             *)
(***************************************************************************)
UnchangedGraph ==
    UNCHANGED <<files, unprocessed_include_files, source_code_include_graph,
                source_code_language_includes, extracted, orderVars, extractVars>>

FindOrder ==
    /\ pc = "find_graph_required_order"
    /\ LET r == find_graph_required_order(write_project.entrypoint, graph, <<>>)
       IN  IF r.error = "none"
           THEN /\ include_order' = r.order
                /\ pc' = "read_header"
                /\ UNCHANGED error
           ELSE /\ Abort(r.error)
                /\ UNCHANGED include_order
    /\ UnchangedGraph
    /\ UNCHANGED <<entrypoint_header, outfile, pending_language, file_index>>

ReadHeader ==
    /\ pc = "read_header"
    /\ IF ~CanOpen(write_project.entrypoint, files)
       THEN Abort("FileAccessError") /\ UNCHANGED entrypoint_header
       ELSE LET text == files[write_project.entrypoint]
                n == cpp_header_comment_regex(text)
            IN  IF n = 0
                THEN Abort("AttributeError") /\ UNCHANGED entrypoint_header
                ELSE /\ entrypoint_header' = SubSeq(text, 1, n)
                     /\ pc' = "open_outfile"
                     /\ UNCHANGED error
    /\ UnchangedGraph
    /\ UNCHANGED <<include_order, outfile, pending_language, file_index>>

OpenOutfile ==
    /\ pc = "open_outfile"
    /\ outfile' = [opened |-> TRUE, prints |-> <<>>]
    /\ pc' = "print_header"
    /\ UnchangedGraph
    /\ UNCHANGED <<error, include_order, entrypoint_header, pending_language, file_index>>

PrintLine(at, text, next) ==
    /\ pc = at
    /\ outfile' = [outfile EXCEPT !.prints = print(@, text)]
    /\ pc' = next
    /\ UnchangedGraph
    /\ UNCHANGED <<error, include_order, entrypoint_header, file_index>>

PrintHeader ==
    PrintLine("print_header", entrypoint_header, "print_ifndef") /\ UNCHANGED pending_language

PrintIfndef ==
    PrintLine("print_ifndef", ifndef_line(upper(write_project.namespace)), "print_define")
    /\ UNCHANGED pending_language

PrintDefine ==
    PrintLine("print_define", define_line(upper(write_project.namespace)), "print_includes")
    /\ pending_language' = graph.language

\* for header in graph.language: a set is iterated in an order the program
\* does not choose.
PrintInclude ==
    /\ \E header \in pending_language :
          /\ PrintLine("print_includes", include_line(header), "print_includes")
          /\ pending_language' = pending_language \ {header}

CopyCode ==
    /\ pc = "print_includes"
    /\ pending_language = {}
    /\ file_index <= Len(include_order)
    /\ LET include_file_path == include_order[file_index]
       IN  IF CanOpen(include_file_path, files)
           THEN /\ outfile' = [outfile EXCEPT
                                  !.prints = print(@, copy_code_to_file(include_file_path, files))]
                /\ file_index' = file_index + 1
                /\ UNCHANGED <<pc, error>>
           ELSE /\ Abort("FileAccessError")
                /\ UNCHANGED <<outfile, file_index>>
    /\ UnchangedGraph
    /\ UNCHANGED <<include_order, entrypoint_header, pending_language>>

PrintEndif ==
    /\ pending_language = {}
    /\ file_index > Len(include_order)
    /\ PrintLine("print_includes", endif_line(upper(write_project.namespace)), "done")
    /\ UNCHANGED pending_language

Next ==
    \/ GraphTurn
    \/ GraphReturn
    \/ FindOrder
    \/ ReadHeader
    \/ OpenOutfile
    \/ PrintHeader
    \/ PrintIfndef
    \/ PrintDefine
    \/ PrintInclude
    \/ CopyCode
    \/ PrintEndif

Spec == Init /\ [][Next]_vars

NextGraph ==
    \/ GraphTurn
    \/ GraphReturn

SpecGraph == InitGraph /\ [][NextGraph]_vars

TypeOK == pc \in {"find_include_graph", "find_graph_required_order", "read_header",
                  "open_outfile", "print_header", "print_ifndef", "print_define",
                  "print_includes", "done", "abort", "order", "order_done",
                  "extract_include_dependencies", "extracted"}

(***************************************************************************)
(* extract_include_dependencies on its own, called on one file.            *)
(***************************************************************************)
\* A file of the working directory itself.
FileW == <<"/", "w", "/", "e">>

\* Directive lines of every form, and lines that are no directive.
QuotedA == <<"#include", " ", "\"", "a", "\"">>
QuotedUp == <<"#include", " ", "\"", ".", ".", "/", "a", "\"">>
QuotedNs == <<"#include", " ", " ", "\"", "n", "s", "/", "a", "\"">>
AngleNs == <<"#include", " ", "<", "n", "s", "/", "a", ">">>
AngleInner == <<"#include", " ", "<", "a", "n", "s", ">">>
AngleA == <<"#include", " ", "<", "a", ">">>
AngleTight == <<"#include", "<", "a", ">">>
AngleEmpty == <<"#include", " ", "<", ">">>
Mismatched == <<"#include", " ", "<", "a", "\"">>
Indented == <<" ", "#include", " ", "<", "a", ">">>
Trailing == <<"#include", " ", "<", "a", ">", " ">>

ExtractPool == {QuotedA, QuotedUp, QuotedNs, AngleNs, AngleInner, AngleA, AngleTight,
                AngleEmpty, Mismatched, Indented, Trailing, CodeA}

\* A file of at most MaxXLines lines, in the namespace directory or in the
\* working directory; and a file that does not open.
InitExtract ==
    /\ pc = "extract_include_dependencies"
    /\ error = "none"
    /\ \/ /\ extract_filename \in {FileE, FileW}
          /\ \E lines \in SeqsUpTo(ExtractPool, MaxXLines) :
                files = (extract_filename :> RenderText("none", lines))
       \/ /\ extract_filename = FileX
          /\ files = <<>>
    /\ dependencies = <<>>
    /\ unprocessed_include_files = <<>>
    /\ source_code_include_graph = <<>>
    /\ source_code_language_includes = {}
    /\ extracted = EmptyBag
    /\ include_order = <<>>
    /\ entrypoint_header = <<>>
    /\ outfile = [opened |-> FALSE, prints |-> OldPrints]
    /\ pending_language = {}
    /\ file_index = 1
    /\ order_entry = <<>>
    /\ stack = <<>>
    /\ order_result = <<>>
    /\ order_visited = <<>>

Extract ==
    /\ pc = "extract_include_dependencies"
    /\ IF CanOpen(extract_filename, files)
       THEN /\ dependencies' = extract_include_dependencies(extract_filename, project, files)
            /\ extracted' = extracted (+) SetToBag({extract_filename})
            /\ pc' = "extracted"
            /\ UNCHANGED error
       ELSE /\ Abort("FileAccessError")
            /\ UNCHANGED <<dependencies, extracted>>
    /\ UNCHANGED <<files, unprocessed_include_files, source_code_include_graph,
                   source_code_language_includes, include_order, entrypoint_header,
                   outfile, pending_language, file_index, orderVars, extract_filename>>

NextExtract == Extract

SpecExtract == InitExtract /\ [][NextExtract]_vars

(***************************************************************************)
(* copy_code_to_file on its own: the loop of write_compacted_source_code   *)
(* over an order of one file.                                              *)
(***************************************************************************)
BlankLine == <<>>
SpaceLine == <<" ">>
PragmaOnce == <<"#pragma once">>
IndentedPragma == <<" ", "#pragma once">>
FormFeedLine == <<"a", "\f", "a">>

CopyPool == {CodeA, BlankLine, SpaceLine, PragmaOnce, IndentedPragma, FormFeedLine, IncV}

\* A file of at most MaxCopyLines lines, with a header comment or without.
InitCopy ==
    /\ pc = "print_includes"
    /\ error = "none"
    /\ \E kind \in {"none", "block"}, lines \in SeqsUpTo(CopyPool, MaxCopyLines) :
          files = (FileE :> RenderText(kind, lines))
    /\ include_order = <<FileE>>
    /\ file_index = 1
    /\ pending_language = {}
    /\ outfile = [opened |-> TRUE, prints |-> <<>>]
    /\ entrypoint_header = <<>>
    /\ unprocessed_include_files = <<>>
    /\ source_code_include_graph = <<>>
    /\ source_code_language_includes = {}
    /\ extracted = EmptyBag
    /\ order_entry = <<>>
    /\ stack = <<>>
    /\ order_result = <<>>
    /\ order_visited = <<>>
    /\ extract_filename = <<>>
    /\ dependencies = <<>>

NextCopy ==
    \/ CopyCode
    \/ PrintEndif

SpecCopy == InitCopy /\ [][NextCopy]_vars

(***************************************************************************)
(* find_graph_required_order, one statement at a time: the activations of  *)
(* the recursion are the frames of the stack.                              *)
(***************************************************************************)
\* The call that hands on the empty list instead of visited.
Frame_fresh_visited(srcfile, visited) ==
    [srcfile |-> srcfile, visited |-> <<>>, at |-> "entry",
     source_dependencies |-> <<>>, index |-> 1]

\* An activation at its first statement.
Frame(srcfile, visited) ==
    [srcfile |-> srcfile, visited |-> visited, at |-> "entry",
     source_dependencies |-> <<>>, index |-> 1]

InitOrder ==
    /\ files = <<>>
    /\ pc = "order"
    /\ error = "none"
    /\ unprocessed_include_files = <<>>
    /\ \E de \in SeqsUpTo(Files, MaxEdges) :
         \E db \in SeqsUpTo(Files, MaxEdges - Len(de)) :
             \E dc \in SeqsUpTo(Files, MaxEdges - Len(de) - Len(db)) :
                 source_code_include_graph =
                     <<[key |-> FileE, value |-> de], [key |-> FileB, value |-> db],
                       [key |-> FileC, value |-> dc]>>
    /\ source_code_language_includes = {}
    /\ extracted = EmptyBag
    /\ include_order = <<>>
    /\ entrypoint_header = <<>>
    /\ outfile = [opened |-> FALSE, prints |-> OldPrints]
    /\ pending_language = {}
    /\ file_index = 1
    /\ order_entry \in Files
    /\ stack = <<Frame(order_entry, <<>>)>>
    /\ order_result = <<>>
    /\ order_visited = <<>>
    /\ extract_filename = <<>>
    /\ dependencies = <<>>

UnchangedRun ==
    UNCHANGED <<files, unprocessed_include_files, source_code_include_graph,
                source_code_language_includes, extracted, include_order,
                entrypoint_header, outfile, pending_language, file_index, order_entry,
                order_visited, extractVars>>

Top == stack[Len(stack)]

\* The top activation returns value to its caller, which merges it into its
\* source_dependencies and moves to its next dependency.
Return(value) ==
    IF Len(stack) = 1
    THEN /\ stack' = <<>>
         /\ order_result' = value
         /\ pc' = "order_done"
    ELSE /\ LET caller == stack[Len(stack) - 1]
            IN  stack' = [SubSeq(stack, 1, Len(stack) - 1) EXCEPT ![Len(stack) - 1] =
                             [caller EXCEPT
                                 !.source_dependencies = merge_dependencies(@, value),
                                 !.index = @ + 1]]
         /\ UNCHANGED <<order_result, pc>>

\* The guard that returns the file it was called on.
OrderGuard_returns_srcfile ==
    /\ pc = "order"
    /\ Top.at = "entry"
    /\ Top.srcfile \in Range(Top.visited)
    /\ Return(<<Top.srcfile>>)
    /\ UNCHANGED error
    /\ UnchangedRun

\* if srcfile in visited: return []
OrderGuard ==
    /\ pc = "order"
    /\ Top.at = "entry"
    /\ Top.srcfile \in Range(Top.visited)
    /\ Return(<<>>)
    /\ UNCHANGED error
    /\ UnchangedRun

\* visited = visited + [srcfile], and the lookup of graph.project[srcfile]
OrderEnter ==
    /\ pc = "order"
    /\ Top.at = "entry"
    /\ Top.srcfile \notin Range(Top.visited)
    /\ IF DictHas(graph.project, Top.srcfile)
       THEN /\ stack' = [stack EXCEPT ![Len(stack)] =
                            [@ EXCEPT !.at = "loop", !.visited = @ \o <<Top.srcfile>>]]
            /\ UNCHANGED <<pc, error>>
       ELSE /\ Abort("KeyError")
            /\ UNCHANGED stack
    /\ UNCHANGED order_result
    /\ UnchangedRun

Dependency == DictGet(graph.project, Top.srcfile)[Top.index]

\* transitive_dependencies = [] if dependency in source_dependencies
OrderSkip ==
    /\ pc = "order"
    /\ Top.at = "loop"
    /\ Top.index <= Len(DictGet(graph.project, Top.srcfile))
    /\ Dependency \in Range(Top.source_dependencies)
    /\ stack' = [stack EXCEPT ![Len(stack)] =
                    [@ EXCEPT !.source_dependencies = merge_dependencies(@, <<>>),
                              !.index = @ + 1]]
    /\ UNCHANGED <<pc, error, order_result>>
    /\ UnchangedRun

\* else find_graph_required_order(dependency, graph, visited)
OrderCall ==
    /\ pc = "order"
    /\ Top.at = "loop"
    /\ Top.index <= Len(DictGet(graph.project, Top.srcfile))
    /\ Dependency \notin Range(Top.source_dependencies)
    /\ stack' = Append(stack, Frame(Dependency, Top.visited))
    /\ UNCHANGED <<pc, error, order_result>>
    /\ UnchangedRun

\* return source_dependencies + [srcfile]
OrderReturn ==
    /\ pc = "order"
    /\ Top.at = "loop"
    /\ Top.index > Len(DictGet(graph.project, Top.srcfile))
    /\ Return(order_return(Top.source_dependencies, Top.srcfile))
    /\ UNCHANGED error
    /\ UnchangedRun

NextOrder ==
    \/ OrderGuard
    \/ OrderEnter
    \/ OrderSkip
    \/ OrderCall
    \/ OrderReturn

SpecOrder == InitOrder /\ [][NextOrder]_vars

\* The interpreter runs the statement it is at.
FairOrder == InitOrder /\ [][NextOrder]_vars /\ WF_vars(NextOrder)

\* The statements and the function agree on what the external call returns.
OrderAgrees ==
    pc = "order_done" =>
        find_graph_required_order(order_entry, graph, order_visited) =
            [error |-> "none", order |-> order_result]

\* The function called on any file with any visited list of at most
\* MaxVisited files, on every graph of at most MaxCallEdges dependencies.
InitOrderCall ==
    /\ files = <<>>
    /\ pc = "order"
    /\ error = "none"
    /\ unprocessed_include_files = <<>>
    /\ \E de \in SeqsUpTo(Files, MaxCallEdges) :
         \E db \in SeqsUpTo(Files, MaxCallEdges - Len(de)) :
             \E dc \in SeqsUpTo(Files, MaxCallEdges - Len(de) - Len(db)) :
                 source_code_include_graph =
                     <<[key |-> FileE, value |-> de], [key |-> FileB, value |-> db],
                       [key |-> FileC, value |-> dc]>>
    /\ source_code_language_includes = {}
    /\ extracted = EmptyBag
    /\ include_order = <<>>
    /\ entrypoint_header = <<>>
    /\ outfile = [opened |-> FALSE, prints |-> OldPrints]
    /\ pending_language = {}
    /\ file_index = 1
    /\ order_entry \in Files
    /\ order_visited \in SeqsUpTo(Files, MaxVisited)
    /\ stack = <<Frame(order_entry, order_visited)>>
    /\ order_result = <<>>
    /\ extract_filename = <<>>
    /\ dependencies = <<>>

SpecOrderCall == InitOrderCall /\ [][NextOrder]_vars

(***************************************************************************)
(* The dependency relation of a graph.project.                             *)
(***************************************************************************)
DirectDeps(g, u) == IF DictHas(g, u) THEN Range(DictGet(g, u)) ELSE {}

RECURSIVE Closure(_, _)
Closure(g, S) ==
    LET T == S \cup UNION {DirectDeps(g, u) : u \in S}
    IN  IF T = S THEN S ELSE Closure(g, T)

\* The files u depends on, directly or transitively.
TransitiveDeps(g, u) == Closure(g, DirectDeps(g, u))

Reachable(g, u) == {u} \cup TransitiveDeps(g, u)

Acyclic(g) == \A u \in DictKeys(g) : u \notin TransitiveDeps(g, u)

(***************************************************************************)
(* C1: for an acyclic graph and any entrypoint, the order returned by      *)
(* find_graph_required_order(entry, graph, []) holds every file reachable  *)
(* from the entrypoint exactly once and no other file, and each file       *)
(* stands before every file that depends on it, directly or transitively.  *)
(***************************************************************************)
C1_AcyclicOrder ==
    (pc = "order_done" /\ Acyclic(graph.project)) =>
        /\ Range(order_result) = Reachable(graph.project, order_entry)
        /\ NoDuplicates(order_result)
        /\ \A u \in Range(order_result) :
              \A v \in TransitiveDeps(graph.project, u) :
                  /\ v \in Range(order_result)
                  /\ IndexOf(order_result, v) < IndexOf(order_result, u)

\* The entrypoint depends on b and c, and b on c: c is contributed twice.
C1_Witness ==
    /\ pc = "order_done"
    /\ Acyclic(graph.project)
    /\ order_entry = FileE
    /\ DictGet(graph.project, FileE) = <<FileB, FileC>>
    /\ DictGet(graph.project, FileB) = <<FileC>>
    /\ order_result = <<FileC, FileB, FileE>>

(***************************************************************************)
(* C2: on every graph, cyclic or with repeated dependencies,               *)
(* find_graph_required_order(entry, graph, []) terminates: an activation   *)
(* on a file that is in its visited list returns the empty list and calls  *)
(* nothing; the visited list strictly grows from each activation to the    *)
(* one it calls and never repeats a file; so the recursion is never deeper *)
(* than the number of files (the depth of an activation being the length   *)
(* of the visited list it is given: 0 for the external call).              *)
(***************************************************************************)
\* The visited argument the activation was called with.
GivenVisited(frame) ==
    IF frame.at = "entry" THEN frame.visited
    ELSE SubSeq(frame.visited, 1, Len(frame.visited) - 1)

C2_VisitedGrows ==
    \A i \in 1..Len(stack) :
        /\ NoDuplicates(stack[i].visited)
        /\ Range(stack[i].visited) \subseteq DictKeys(graph.project)
        /\ Len(GivenVisited(stack[i])) = i - 1
        /\ Len(GivenVisited(stack[i])) <= Cardinality(DictKeys(graph.project))
        /\ i > 1 => /\ stack[i - 1].at = "loop"
                    /\ GivenVisited(stack[i]) = stack[i - 1].visited
                    /\ IsPrefix(GivenVisited(stack[i - 1]), GivenVisited(stack[i]))
                    /\ Len(GivenVisited(stack[i - 1])) < Len(GivenVisited(stack[i]))

C2_GuardReturnsEmpty ==
    [][(pc = "order" /\ Top.at = "entry" /\ Top.srcfile \in Range(Top.visited)) =>
          /\ Len(stack') = Len(stack) - 1
          /\ stack'[Len(stack')].source_dependencies = stack[Len(stack')].source_dependencies
          /\ stack'[Len(stack')].index = stack[Len(stack')].index + 1]_vars

C2_Terminates ==
    /\ []C2_VisitedGrows
    /\ C2_GuardReturnsEmpty
    /\ <>(pc = "order_done")

\* A cycle through every file: the activation that closes it is given all
\* the files as visited.
C2_Witness ==
    /\ pc = "order"
    /\ Len(stack) = Cardinality(DictKeys(graph.project)) + 1
    /\ Top.at = "entry"
    /\ Top.srcfile \in Range(Top.visited)
    /\ ~Acyclic(graph.project)

(***************************************************************************)
(* The include relation of the file system, as the extractor reports it.   *)
(***************************************************************************)
ProjectFiles == <<FileE, FileB, FileC>>

IncludeRelation ==
    [i \in 1..Len(ProjectFiles) |->
        [key |-> ProjectFiles[i],
         value |-> IF CanOpen(ProjectFiles[i], files)
                   THEN extract_include_dependencies(ProjectFiles[i], project, files)
                            .project_include_files
                   ELSE <<>>]]

\* The lines of a file of the model's file systems.
LinesOf(file) == Range(Split(files[file], "\n"))

\* The external names a file of the model's file systems includes.
ExternalNamesOf(file) ==
    (IF IncV \in LinesOf(file) THEN {<<"v">>} ELSE {})
    \cup (IF IncS \in LinesOf(file) THEN {<<"s">>} ELSE {})

GraphReturned == pc = "find_graph_required_order"

(***************************************************************************)
(* C3: on every include relation, with a self-include, a longer cycle or   *)
(* repeated directives, and every file opening, the loop of                *)
(* find_include_graph empties its queue and the function returns: the      *)
(* turns made and the turns still owed to the entries of the queue never   *)
(* add up to more than the turns owed to the entrypoint at the start, so   *)
(* the turns are bounded, and with the queue empty the function returns.   *)
(***************************************************************************)
\* The turns owed to a queue entry of file f while the keys are K, under
\* the include relation rel: its own, and those owed to the entries its
\* turn appends.
RECURSIVE TurnsOwed(_, _, _)
RECURSIVE TurnsOwedTo(_, _, _, _)
TurnsOwed(rel, f, K) == 1 + TurnsOwedTo(rel, DictGet(rel, f), K, K \cup {f})

TurnsOwedTo(rel, headers, K, K1) ==
    IF headers = <<>> THEN 0
    ELSE (IF headers[1] \in K THEN 0 ELSE TurnsOwed(rel, headers[1], K1))
         + TurnsOwedTo(rel, Tail(headers), K, K1)

RECURSIVE SumTurns(_, _, _)
SumTurns(rel, queue, K) ==
    IF queue = <<>> THEN 0
    ELSE TurnsOwed(rel, queue[1], K) + SumTurns(rel, Tail(queue), K)

C3_GraphLoopTerminates ==
    \A rel \in {IncludeRelation} :
        LET turns_left == SumTurns(rel, unprocessed_include_files,
                                   DictKeys(source_code_include_graph))
            turns_owed == TurnsOwed(rel, entrypoint_file_path, {})
        IN  /\ pc = "find_include_graph" =>
                  /\ turns_left >= 0
                  /\ BagCardinality(extracted) + turns_left <= turns_owed
                  /\ unprocessed_include_files = <<>> => ENABLED GraphReturn
            /\ GraphReturned =>
                  /\ unprocessed_include_files = <<>>
                  /\ BagCardinality(extracted) <= turns_owed

\* The entrypoint includes itself and b twice, and b includes the entrypoint.
C3_Witness ==
    /\ GraphReturned
    /\ unprocessed_include_files = <<>>
    /\ DictGet(graph.project, FileE) = <<FileE, FileB, FileB>>
    /\ DictGet(graph.project, FileB) = <<FileE>>

(***************************************************************************)
(* C4: when find_include_graph returns, every path in a dependency list of *)
(* graph.project is a key of it, the keys are exactly the files reachable  *)
(* from the entrypoint, each key maps to the dependencies the extractor    *)
(* reports for it, and find_graph_required_order from the entrypoint looks *)
(* up no file that graph.project does not hold.                            *)
(***************************************************************************)
C4_GraphClosed ==
    GraphReturned =>
        \A rel \in {IncludeRelation} :
            /\ \A k \in DictKeys(graph.project) :
                  /\ Range(DictGet(graph.project, k)) \subseteq DictKeys(graph.project)
                  /\ DictGet(graph.project, k) = DictGet(rel, k)
            /\ DictKeys(graph.project) = Reachable(rel, entrypoint_file_path)
            /\ Len(graph.project) = Cardinality(DictKeys(graph.project))
            /\ find_graph_required_order(entrypoint_file_path, graph, <<>>).error = "none"

\* A cycle between the entrypoint and one file, the third file not reached.
C4_Witness ==
    /\ GraphReturned
    /\ ~Acyclic(graph.project)
    /\ Cardinality(DictKeys(graph.project)) = 2
    /\ \E k \in DictKeys(graph.project) : Len(DictGet(graph.project, k)) >= 2

(***************************************************************************)
(* C5: when find_include_graph returns, graph.language is the union of the *)
(* external names of the files reachable from the entrypoint and of no     *)
(* other file; a namespace-matching angle-bracket include is no member.    *)
(***************************************************************************)
C5_LanguageUnion ==
    GraphReturned =>
        /\ graph.language =
              UNION {ExternalNamesOf(f) : f \in Reachable(IncludeRelation, entrypoint_file_path)}
        /\ <<"n", "s", "/", "c">> \notin graph.language
        /\ \A name \in graph.language : ~Contains(name, project.namespace)

\* The entrypoint includes <ns/c> and <v>; b, which is not reached, <s>.
C5_Witness ==
    /\ GraphReturned
    /\ {IncC, IncV} \subseteq LinesOf(FileE)
    /\ IncS \in LinesOf(FileB)
    /\ FileB \notin DictKeys(graph.project)
    /\ graph.language = {<<"v">>}

(***************************************************************************)
(* C6: during find_include_graph, extract_include_dependencies reads each  *)
(* file at most once.                                                      *)
(***************************************************************************)
C6_ExtractedAtMostOnce == \A f \in BagToSet(extracted) : CopiesIn(f, extracted) <= 1

(***************************************************************************)
(* A run of compact_source_code as a function of the file system: the      *)
(* exception that ends it, and whether the output file was opened.         *)
(***************************************************************************)
write_outcome(include_graph, fs) ==
    LET ordered == find_graph_required_order(write_project.entrypoint, include_graph, <<>>)
    IN  IF ordered.error # "none" THEN [error |-> ordered.error, opened |-> FALSE]
        ELSE IF ~CanOpen(write_project.entrypoint, fs)
        THEN [error |-> "FileAccessError", opened |-> FALSE]
        ELSE IF cpp_header_comment_regex(fs[write_project.entrypoint]) = 0
        THEN [error |-> "AttributeError", opened |-> FALSE]
        ELSE IF \E i \in 1..Len(ordered.order) : ~CanOpen(ordered.order[i], fs)
        THEN [error |-> "FileAccessError", opened |-> TRUE]
        ELSE [error |-> "none", opened |-> TRUE]

compact_outcome(fs) ==
    LET built == find_include_graph(entrypoint_file_path, project, fs)
    IN  IF built.error # "none" THEN [error |-> built.error, opened |-> FALSE]
        ELSE write_outcome(built.graph, fs)

\* The statements and the function agree on how a run ends.
RunAgrees ==
    pc \in {"done", "abort"} =>
        compact_outcome(files) = [error |-> error, opened |-> outfile.opened]

(***************************************************************************)
(* C7: the prints of a successful run of write_compacted_source_code are,  *)
(* in this order: the entrypoint's header comment, the #ifndef and #define *)
(* of the guard named by the upper-cased namespace, one include directive  *)
(* for each member of graph.language, the cleaned text of each file of the *)
(* computed order, once and in that order, and the #endif; at every moment *)
(* the output holds a beginning of that sequence.  With graph.language     *)
(* empty the first file's text follows the #define.                        *)
(***************************************************************************)
\* What is left of a file of the model's file systems once its header
\* comment, its include directives and its blank lines are gone.
CodeOf(file) ==
    Join(SelectSeq(Split(files[file], "\n"), LAMBDA line : line = CodeA), "\n")

C7_PrintAt(i) ==
    LET n == Cardinality(graph.language)
        m == Len(include_order)
        printed == outfile.prints[i]
    IN  /\ i = 1 => printed = HeaderBlock
        /\ i = 2 => printed = <<"#ifndef ", "N", "S", "_HEADER_INCLUDED">>
        /\ i = 3 => printed = <<"#define ", "N", "S", "_HEADER_INCLUDED">>
        /\ (3 < i /\ i <= 3 + n) =>
              /\ \E header \in graph.language : printed = <<"#include <">> \o header \o <<">">>
              /\ \A j \in 4..(i - 1) : outfile.prints[j] # printed
        /\ (3 + n < i /\ i <= 3 + n + m) => printed = CodeOf(include_order[i - 3 - n])
        /\ i = 3 + n + m + 1 => printed = <<"#endif //", "N", "S", "_HEADER_INCLUDED">>
        /\ i <= 3 + n + m + 1

C7_WriteSequence ==
    /\ outfile.opened =>
          /\ \A i \in 1..Len(outfile.prints) : C7_PrintAt(i)
          /\ NoDuplicates(include_order)
          /\ include_order # <<>>
    /\ pc = "done" =>
          /\ outfile.opened
          /\ Len(outfile.prints) = 3 + Cardinality(graph.language) + Len(include_order) + 1

\* A finished run with one external name and two files, b's text first.
C7_Witness ==
    /\ pc = "done"
    /\ graph.language = {<<"v">>}
    /\ include_order = <<FileB, FileE>>
    /\ Len(outfile.prints) = 7
    /\ outfile.prints[5] = <<"a">>

(***************************************************************************)
(* C8: when the entrypoint's text does not begin with a documentation      *)
(* comment block, write_compacted_source_code fails before it opens the    *)
(* output file, whose previous contents stay as they were.                 *)
(***************************************************************************)
NoDocBlock ==
    /\ CanOpen(entrypoint_file_path, files)
    /\ LET text == files[entrypoint_file_path]
       IN  ~(/\ text # <<>>
             /\ text[1] = "/**"
             /\ \E i \in 2..Len(text) : text[i] = "*/")

C8_NoHeaderNoOutput ==
    NoDocBlock =>
        /\ outfile = [opened |-> FALSE, prints |-> OldPrints]
        /\ pc \in {"find_include_graph", "find_graph_required_order", "read_header", "abort"}
        /\ (pc = "abort" /\ include_order # <<>>) => error = "AttributeError"

\* The entrypoint opens a comment and never closes it; the run has failed
\* after computing the order.
C8_Witness ==
    /\ NoDocBlock
    /\ files[entrypoint_file_path] # <<>>
    /\ files[entrypoint_file_path][1] = "/**"
    /\ pc = "abort"
    /\ error = "AttributeError"
    /\ Len(include_order) >= 2

(***************************************************************************)
(* C9, amended: on a file system that does not change during the run, a    *)
(* file that cannot be opened ends the run in find_include_graph, before   *)
(* the order is computed and before the output file is opened; the output  *)
(* file keeps its previous contents.                                       *)
(***************************************************************************)
C9_FileErrorBeforeOpen ==
    error = "FileAccessError" =>
        /\ pc = "abort"
        /\ outfile = [opened |-> FALSE, prints |-> OldPrints]
        /\ include_order = <<>>

\* The missing file is met after two files have been read.
C9_Witness ==
    /\ error = "FileAccessError"
    /\ pc = "abort"
    /\ BagCardinality(extracted) >= 2
    /\ ~outfile.opened

\* C9 as claimed: some run, this one or another one of the model's file
\* systems, ends with a file that cannot be opened after the output file
\* has been opened for writing.
C9_AbortAfterOpenExists ==
    \/ error = "FileAccessError" /\ outfile.opened
    \/ \E kind \in HeaderKinds, le \in SeqsUpTo(LinePool, MaxLines) :
         \E lb \in SeqsUpTo(LinePool, MaxLines - Len(le)) :
             \E lc \in SeqsUpTo(LinePool, MaxLines - Len(le) - Len(lb)) :
                 compact_outcome(ThreeFiles(RenderText(kind, le), RenderText("none", lb),
                                            RenderText("block", lc)))
                     = [error |-> "FileAccessError", opened |-> TRUE]
    \/ compact_outcome((FileB :> RenderText("none", <<CodeA>>)))
           = [error |-> "FileAccessError", opened |-> TRUE]

(***************************************************************************)
(* C10: extract_include_dependencies puts each inclusion directive of the  *)
(* file, in the order of the file and once per occurrence, in exactly one  *)
(* of its two lists: a quoted directive in the internal list, resolved     *)
(* against the directory of the including file; an angle-bracket directive *)
(* whose name contains the namespace in the internal list, resolved        *)
(* against the working directory; any other angle-bracket directive, by    *)
(* its name, in the external list.                                         *)
(***************************************************************************)
RECURSIVE DropSpaces(_)
DropSpaces(s) == IF s # <<>> /\ s[1] = " " THEN DropSpaces(Tail(s)) ELSE s

\* What follows the keyword of a directive line, <<>> for any other line.
Operand(line) ==
    IF line # <<>> /\ line[1] = "#include" THEN DropSpaces(Tail(line)) ELSE <<>>

Form(line) ==
    LET operand == Operand(line)
        n == Len(operand)
    IN  IF n < 2 THEN "none"
        ELSE IF operand[1] = "\"" /\ operand[n] = "\"" THEN "quoted"
        ELSE IF operand[1] = "<" /\ operand[n] = ">" THEN "angle"
        ELSE IF operand[1] \in {"<", "\""} /\ operand[n] \in {">", "\""} THEN "mismatched"
        ELSE "none"

NameOf(line) == SubSeq(Operand(line), 2, Len(Operand(line)) - 1)

\* The path of a name taken from a directory: the steps of both, a ".."
\* undoing the step before it.
RECURSIVE Walk(_, _)
Walk(steps, path) ==
    IF steps = <<>> THEN path
    ELSE IF steps[1] \in {<<>>, <<".">>} THEN Walk(Tail(steps), path)
    ELSE IF steps[1] = <<".", ".">>
    THEN Walk(Tail(steps), IF path = <<>> THEN path ELSE SubSeq(path, 1, Len(path) - 1))
    ELSE Walk(Tail(steps), Append(path, steps[1]))

Resolved(directory, name) ==
    Flatten([i \in 1..Len(Walk(Split(directory, "/") \o Split(name, "/"), <<>>)) |->
                <<"/">> \o Walk(Split(directory, "/") \o Split(name, "/"), <<>>)[i]])

DirectoryOf(file) ==
    LET last == CHOOSE i \in 1..Len(file) :
                    file[i] = "/" /\ \A j \in (i + 1)..Len(file) : file[j] # "/"
    IN  SubSeq(file, 1, last - 1)

IsInternal(line) ==
    \/ Form(line) = "quoted"
    \/ Form(line) = "angle" /\ Contains(NameOf(line), <<"n", "s">>)

IsExternal(line) == Form(line) = "angle" /\ ~Contains(NameOf(line), <<"n", "s">>)

InternalOf(file, lines) ==
    LET internal == SelectSeq(lines, IsInternal)
    IN  [i \in 1..Len(internal) |->
            Resolved(IF Form(internal[i]) = "quoted" THEN DirectoryOf(file) ELSE <<"/", "w">>,
                     NameOf(internal[i]))]

ExternalOf(lines) ==
    LET external == SelectSeq(lines, IsExternal)
    IN  [i \in 1..Len(external) |-> NameOf(external[i])]

WellFormed(lines) == \A i \in 1..Len(lines) : Form(lines[i]) # "mismatched"

C10_Classification ==
    pc = "extracted" =>
        LET lines == splitlines(files[extract_filename])
            directives == SelectSeq(lines, LAMBDA line : Form(line) # "none")
        IN  /\ Len(dependencies.project_include_files)
                  + Len(dependencies.language_include_files) = Len(directives)
            /\ WellFormed(lines) =>
                  /\ dependencies.project_include_files = InternalOf(extract_filename, lines)
                  /\ dependencies.language_include_files = ExternalOf(lines)

\* A file of the namespace directory with a directive of each kind.
C10_Witness ==
    /\ pc = "extracted"
    /\ extract_filename = FileE
    /\ splitlines(files[extract_filename]) = <<AngleA, QuotedUp, AngleNs>>
    /\ dependencies.language_include_files = <<<<"a">>>>
    /\ dependencies.project_include_files
           = <<<<"/", "w", "/", "a">>, <<"/", "w", "/", "n", "s", "/", "a">>>>

(***************************************************************************)
(* C11, amended: for a file F whose dependency list in graph.project is    *)
(* empty, find_graph_required_order(F, graph, visited) returns [F] when F  *)
(* is not in visited, and the empty list when F is in visited.             *)
(***************************************************************************)
C11_LeafOrder ==
    (pc = "order_done" /\ DictGet(graph.project, order_entry) = <<>>) =>
        order_result = IF \E i \in 1..Len(order_visited) : order_visited[i] = order_entry
                       THEN <<>>
                       ELSE <<order_entry>>

\* The file without dependencies is the second of the visited files.
C11_Witness ==
    /\ pc = "order_done"
    /\ DictGet(graph.project, order_entry) = <<>>
    /\ order_entry = FileC
    /\ order_visited = <<FileB, FileC>>
    /\ order_result = <<>>

\* C11 as claimed: [F] whatever the visited list.
C11_LeafOrderAnyVisited ==
    (pc = "order_done" /\ DictGet(graph.project, order_entry) = <<>>) =>
        order_result = <<order_entry>>

(***************************************************************************)
(* C12, amended: on every graph that contains a cycle, the sequence that   *)
(* find_graph_required_order(entry, graph, []) returns holds every file    *)
(* reachable from the entrypoint: the cycle guard drops a file from one    *)
(* branch only, never from the result of the external call.                *)
(***************************************************************************)
C12_NoFileMissing ==
    (pc = "order_done" /\ ~Acyclic(graph.project)) =>
        \A f \in Reachable(graph.project, order_entry) :
            \E i \in 1..Len(order_result) : order_result[i] = f

\* c is discovered only through b, which closes the cycle with the
\* entrypoint after naming c.
C12_Witness ==
    /\ pc = "order_done"
    /\ order_entry = FileE
    /\ DictGet(graph.project, FileE) = <<FileB>>
    /\ DictGet(graph.project, FileB) = <<FileC, FileE>>
    /\ DictGet(graph.project, FileC) = <<>>
    /\ order_result = <<FileC, FileB, FileE>>

\* A graph as a graph.project over four files.
FileD == <<"/", "w", "/", "n", "s", "/", "d">>

FourFiles == Files \cup {FileD}

ProjectOf(de, db, dc, dd) ==
    <<[key |-> FileE, value |-> de], [key |-> FileB, value |-> db],
      [key |-> FileC, value |-> dc], [key |-> FileD, value |-> dd]>>

MissesFile(g, entry) ==
    \E f \in Reachable(g, entry) :
        f \notin Range(find_graph_required_order(entry, IncludeGraph({}, g), <<>>).order)

\* C12 as claimed: the external call on some graph with a cycle, this
\* run's or another one of four files and at most MaxEdges dependencies,
\* returns a sequence that lacks a reachable file.
C12_SomeFileMissing ==
    \/ pc = "order_done" /\ ~Acyclic(graph.project)
          /\ \E f \in Reachable(graph.project, order_entry) : f \notin Range(order_result)
    \/ \E de \in SeqsUpTo(FourFiles, MaxEdges) :
         \E db \in SeqsUpTo(FourFiles, MaxEdges - Len(de)) :
             \E dc \in SeqsUpTo(FourFiles, MaxEdges - Len(de) - Len(db)) :
                 \E dd \in SeqsUpTo(FourFiles, MaxEdges - Len(de) - Len(db) - Len(dc)) :
                     /\ ~Acyclic(ProjectOf(de, db, dc, dd))
                     /\ MissesFile(ProjectOf(de, db, dc, dd), FileE)

(***************************************************************************)
(* C13: on every graph, cyclic or not, in the sequence returned by         *)
(* find_graph_required_order(entry, graph, []): when a file u of the       *)
(* sequence depends directly on v, and v does not depend on u, directly or *)
(* transitively, v stands before u.  Only an edge of a cycle is emitted    *)
(* out of dependency order.                                                *)
(***************************************************************************)
C13_AcyclicEdgesOrdered ==
    pc = "order_done" =>
        \A u \in Range(order_result) :
            \A v \in DirectDeps(graph.project, u) :
                u \notin TransitiveDeps(graph.project, v) =>
                    /\ v \in Range(order_result)
                    /\ IndexOf(order_result, v) < IndexOf(order_result, u)

\* b names the entrypoint, an edge of a cycle emitted out of order, and
\* then c, an edge of no cycle.
C13_Witness ==
    /\ pc = "order_done"
    /\ order_entry = FileE
    /\ DictGet(graph.project, FileE) = <<FileB>>
    /\ DictGet(graph.project, FileB) = <<FileE, FileC>>
    /\ DictGet(graph.project, FileC) = <<>>
    /\ order_result = <<FileC, FileB, FileE>>

(***************************************************************************)
(* C14: on every graph, the sequence returned by                           *)
(* find_graph_required_order(entry, graph, []) ends with the entrypoint    *)
(* and holds no file twice; no activation collects a file of its visited   *)
(* list, so what it returns holds no file of the visited list it was       *)
(* given, and a dependency's recursion never emits the entrypoint again.   *)
(***************************************************************************)
C14_EntrypointLastOnce ==
    /\ pc = "order_done" =>
          /\ order_result # <<>>
          /\ order_result[Len(order_result)] = order_entry
          /\ NoDuplicates(order_result)
    /\ pc = "order" =>
          \A i \in 1..Len(stack) :
              /\ NoDuplicates(stack[i].source_dependencies)
              /\ \A j \in 1..Len(stack[i].source_dependencies) :
                    /\ stack[i].source_dependencies[j] # stack[i].srcfile
                    /\ \A k \in 1..Len(stack[i].visited) :
                          stack[i].source_dependencies[j] # stack[i].visited[k]

\* The entrypoint includes b and b includes the entrypoint.
C14_Witness ==
    /\ pc = "order_done"
    /\ order_entry = FileE
    /\ DictGet(graph.project, FileE) = <<FileB>>
    /\ DictGet(graph.project, FileB) = <<FileE>>
    /\ order_result = <<FileB, FileE>>

(***************************************************************************)
(* C15: on an acyclic graph, in the sequence returned by                   *)
(* find_graph_required_order(f, graph, []): of two direct dependencies d1  *)
(* and d2 of f, d1 first named before d2 and d2 no transitive dependency   *)
(* of d1, d1 stands before d2; and what the earlier siblings contributed   *)
(* stays where it is: at every moment the dependencies f has collected are *)
(* a beginning of the sequence returned, which holds no file twice.        *)
(***************************************************************************)
\* The position of the first occurrence of d in the list, 0 if none.
FirstNamed(list, d) ==
    IF \E i \in 1..Len(list) : list[i] = d
    THEN CHOOSE i \in 1..Len(list) : list[i] = d /\ \A j \in 1..(i - 1) : list[j] # d
    ELSE 0

C16_EnqueueRule ==
    [][(pc = "find_include_graph" /\ unprocessed_include_files # <<>>
            /\ pc' = "find_include_graph") =>
          \A discovered \in {extract_include_dependencies(Head(unprocessed_include_files),
                                                          project, files).project_include_files} :
              /\ unprocessed_include_files' =
                    Tail(unprocessed_include_files)
                        \o SelectSeq(discovered,
                                     LAMBDA header :
                                         \A i \in 1..Len(source_code_include_graph) :
                                             source_code_include_graph[i].key # header)
              /\ \A j \in Len(unprocessed_include_files)..Len(unprocessed_include_files') :
                    \A i \in 1..Len(source_code_include_graph) :
                        source_code_include_graph[i].key # unprocessed_include_files'[j]]_vars

\* The queue holds c twice, named by the entrypoint and by b before its own
\* turn.
C16_Witness ==
    /\ pc = "find_include_graph"
    /\ unprocessed_include_files = <<FileC, FileC>>
    /\ DictKeys(source_code_include_graph) = {FileE, FileB}

(***************************************************************************)
(* C17: a builder that keeps a set of the scheduled files, tested when a   *)
(* dependency is met, so that each file enters the queue once and is       *)
(* extracted once, returns what find_include_graph returns: the same       *)
(* project map, with the same keys in the same order and the same list for *)
(* each key, and the same language set; the order computed from either is  *)
(* the same.                                                               *)
(***************************************************************************)
\* The dependencies of a turn that are not scheduled yet, each once.
RECURSIVE NewlyScheduled(_, _)
NewlyScheduled(headers, scheduled) ==
    IF headers = <<>> THEN <<>>
    ELSE IF headers[1] \in scheduled THEN NewlyScheduled(Tail(headers), scheduled)
    ELSE <<headers[1]>> \o NewlyScheduled(Tail(headers), scheduled \cup {headers[1]})

RECURSIVE ScheduledBuilder(_, _, _, _)
ScheduledBuilder(queue, scheduled, completed, language) ==
    IF queue = <<>> THEN [project |-> completed, language |-> language]
    ELSE LET current == queue[1]
             found == extract_include_dependencies(current, project, files)
             new == NewlyScheduled(found.project_include_files, scheduled)
         IN  ScheduledBuilder(Tail(queue) \o new,
                              scheduled \cup {new[i] : i \in 1..Len(new)},
                              Append(completed,
                                     [key |-> current, value |-> found.project_include_files]),
                              language \cup {found.language_include_files[i] :
                                                i \in 1..Len(found.language_include_files)})

C17_ScheduledBuilderSame ==
    GraphReturned =>
        \A built \in {ScheduledBuilder(<<entrypoint_file_path>>, {entrypoint_file_path},
                                       <<>>, {})} :
            /\ built.project = graph.project
            /\ built.language = graph.language
            /\ find_graph_required_order(entrypoint_file_path, built, <<>>)
                   = find_graph_required_order(entrypoint_file_path, graph, <<>>)

\* The entrypoint names b and itself: it is in the queue behind b and is
\* extracted a second time after b has become a key.
C17_Witness ==
    /\ GraphReturned
    /\ Split(files[FileE], "\n")[1] = IncB
    /\ Split(files[FileE], "\n")[2] = IncE
    /\ CopiesIn(FileE, extracted) = 2
    /\ graph.project[1].key = FileE
    /\ graph.project[2].key = FileB

(***************************************************************************)
(* C18, amended: for a file with no inclusion directive, no leading        *)
(* documentation header, no include-once marker line and no line boundary  *)
(* but the newline, the text copy_code_to_file emits is the file's         *)
(* non-empty lines, unchanged and in their order.                          *)
(***************************************************************************)
\* The lines of the file as the newline ends them.
FileLines(file) ==
    LET pieces == Split(files[file], "\n")
    IN  SubSeq(pieces, 1, Len(pieces) - 1)

NoDirectiveNoHeader(file) ==
    /\ \A i \in 1..Len(FileLines(file)) : Form(FileLines(file)[i]) = "none"
    /\ files[file] = <<>> \/ files[file][1] # "/**"

NoMarkerNoFormFeed(file) ==
    \A i \in 1..Len(FileLines(file)) :
        /\ FileLines(file)[i] # <<"#pragma once">>
        /\ \A j \in 1..Len(FileLines(file)[i]) : FileLines(file)[i][j] # "\f"

NonEmptyLines(file) == SelectSeq(FileLines(file), LAMBDA line : line # <<>>)

Copied == pc \in {"print_includes", "done"} /\ file_index = 2 /\ outfile.prints # <<>>

C18_RoundTrip ==
    (Copied /\ NoDirectiveNoHeader(FileE) /\ NoMarkerNoFormFeed(FileE)) =>
        outfile.prints[1] = Join(NonEmptyLines(FileE), "\n")

\* A line of code, an empty line and a line of one space: the space stays.
C18_Witness ==
    /\ Copied
    /\ FileLines(FileE) = <<CodeA, BlankLine, SpaceLine>>
    /\ outfile.prints[1] = <<"a", "\n", " ">>

\* C18 as claimed: nothing asked of the file but to hold no inclusion
\* directive and no leading documentation header.
C18_RoundTripAnyFile ==
    (Copied /\ NoDirectiveNoHeader(FileE)) =>
        outfile.prints[1] = Join(NonEmptyLines(FileE), "\n")

(***************************************************************************)
(* C19: the section copy_code_to_file writes for a file holds no empty     *)
(* line, also when the cleaning leaves no line of the file.                *)
(***************************************************************************)
\* The lines of the section: print ends the text it is given with a newline.
SectionLines == Split(outfile.prints[1], "\n")

C19_NoBlankLine ==
    Copied => \A i \in 1..Len(SectionLines) : SectionLines[i] # <<>>

====
